---- MODULE Spec2Model ----
(***************************************************************************)
(* A state-machine model of the pallet runtime: the System pallet          *)
(* (system.rs), the Balances pallet (balances.rs), the Proof-of-Existence  *)
(* pallet (proof_of_existence.rs) and Runtime::execute_block (main.rs).     *)
(*                                                                         *)
(* The numeric types of main.rs (Amount = u128, BlockNumber = u32,          *)
(* Nonce = u32) are modelled with the same arithmetic (checked_add,        *)
(* checked_sub, plain +) over narrower ranges 0..AmountMax,                 *)
(* 0..BlockNumberMax, 0..NonceMax, so that the overflow cases are reached.  *)
(* The amounts that the genesis setup and the extrinsics carry are drawn     *)
(* from Amounts: zero, the amount main() transfers, and the largest         *)
(* amount, which is the balance main() sets at genesis.                     *)
(***************************************************************************)
EXTENDS Integers, Sequences, FiniteSets, TLC

(***************************************************************************)
(* Bounds of the model.                                                    *)
(***************************************************************************)
\* largest value of types::Amount (the model's stand-in for u128::MAX): the
\* genesis balance of main()
AmountMax == 10000
\* largest value of types::BlockNumber (stand-in for u32::MAX)
BlockNumberMax == 3
\* largest value of types::Nonce (stand-in for u32::MAX)
NonceMax == 2
\* the extrinsics a block supplier submits over a run, at most (a block's
\* extrinsic vector is any vector that fits in what is left of them)
MaxExtrinsics == 2
\* the same, for a supplier whose extrinsics are all ProofOfExistence calls
MaxClaimExtrinsics == 3

\* types::AccountId values: the two users of main() and a third account
Accounts == {"lucio", "miriam", "alice"}
\* the accounts that sign extrinsics and that the genesis setup funds (the
\* users of main()); the third account only receives
Callers == {"lucio", "miriam"}
\* types::Content values
Contents == {"MY_DOC", "documento_da_miriam"}

\* the balance main() sets at genesis and the amount it transfers
GenesisBalance == 10000
TransferAmount == 100
\* the amounts of set_balance and of Call::Transfer
Amounts == {0, TransferAmount, GenesisBalance, AmountMax}
BlockNumbers == 0..BlockNumberMax

(***************************************************************************)
(* support.rs                                                              *)
(***************************************************************************)
\* DispachResult: Ok(()) or Err(&'static str)
Ok == "Ok"
ErrInsufficientBalance == "Insufficient balance"
ErrOverflow == "Overflow when adding to balance"
ErrClaimExists == "Claim already exists"
ErrClaimNotFound == "Claim não existe"
ErrNotClaimOwner == "Caller is not the owner of the claim"
ErrBlockNumberMismatch == "Block number mismatch"
\* no execute_block / dispatch has returned yet
NoResult == "none"

ModuleErrors ==
    {ErrInsufficientBalance, ErrOverflow, ErrClaimExists, ErrClaimNotFound,
     ErrNotClaimOwner}

\* Option::None of checked_add / checked_sub
None == -1

\* BTreeMap::insert
Insert(map, key, value) ==
    [k \in (DOMAIN map) \cup {key} |-> IF k = key THEN value ELSE map[k]]

\* BTreeMap::remove
Remove(map, key) == [k \in (DOMAIN map) \ {key} |-> map[k]]

\* BTreeMap::new
EmptyMap == [k \in {} |-> 0]

(***************************************************************************)
(* The calls (main.rs RuntimeCall over the pallets' Call enums) and the     *)
(* blocks a supplier can submit.                                           *)
(***************************************************************************)
Transfer(to, amount) ==
    [pallet |-> "Balances", call |-> "Transfer", to |-> to, amount |-> amount]
CreateClaim(claim) ==
    [pallet |-> "ProofOfExistence", call |-> "CreateClaim", claim |-> claim]
RevokeClaim(claim) ==
    [pallet |-> "ProofOfExistence", call |-> "RevokeClaim", claim |-> claim]

RuntimeCall ==
    {Transfer(to, amount) : to \in Accounts, amount \in Amounts}
        \cup {CreateClaim(c) : c \in Contents}
        \cup {RevokeClaim(c) : c \in Contents}

Extrinsic == [caller : Callers, call : RuntimeCall]

\* the extrinsics that carry a RuntimeCall::ProofOfExistence
ClaimExtrinsic == {ext \in Extrinsic : ext.call.pallet = "ProofOfExistence"}

\* the extrinsic vectors of at most max elements
ExtrinsicVecs(max) == UNION {[1..n -> Extrinsic] : n \in 0..max}
ClaimExtrinsicVecs(max) == UNION {[1..n -> ClaimExtrinsic] : n \in 0..max}

MakeBlock(header, extrinsic) ==
    [header |-> [block_number |-> header], extrinsic |-> extrinsic]

NoBlock == [header |-> [block_number |-> 0], extrinsic |-> <<>>]

(***************************************************************************)
(* num::traits                                                             *)
(***************************************************************************)
checked_sub(x, y) == IF y > x THEN None ELSE x - y
checked_add(x, y, max) == IF x + y > max THEN None ELSE x + y

(***************************************************************************)
(* balances.rs                                                             *)
(***************************************************************************)
\* set_balance storing its entry in a fresh map: the entries of the other
\* accounts are dropped
set_balance_alone(b, account, amount) == Insert(EmptyMap, account, amount)

set_balance(b, account, amount) == Insert(b, account, amount)

\* get_balance without the default: Option::None for an account not stored
get_balance_or_none(b, account) == IF account \in DOMAIN b THEN b[account] ELSE None

get_balance(b, account) == IF account \in DOMAIN b THEN b[account] ELSE 0

\* transfer with the recipient's sum computed by a wrapping `+` in place of
\* checked_add: no Overflow error
transfer_unchecked_add(b, caller, to, amount) ==
    LET caller_balance == get_balance(b, caller)
        to_balance == get_balance(b, to)
        new_caller_balance == checked_sub(caller_balance, amount)
        new_to_balance == (to_balance + amount) % (AmountMax + 1)
    IN  IF new_caller_balance = None
            THEN [result |-> ErrInsufficientBalance, balance |-> b]
        ELSE [result |-> Ok,
              balance |-> set_balance(set_balance(b, caller, new_caller_balance),
                                      to, new_to_balance)]

\* transfer with the caller's balance written as soon as the subtraction
\* succeeds, before the recipient's sum is checked
transfer_write_caller_first(b, caller, to, amount) ==
    LET caller_balance == get_balance(b, caller)
        to_balance == get_balance(b, to)
        new_caller_balance == checked_sub(caller_balance, amount)
        new_to_balance == checked_add(to_balance, amount, AmountMax)
    IN  IF new_caller_balance = None
            THEN [result |-> ErrInsufficientBalance, balance |-> b]
        ELSE IF new_to_balance = None
            THEN [result |-> ErrOverflow,
                  balance |-> set_balance(b, caller, new_caller_balance)]
        ELSE [result |-> Ok,
              balance |-> set_balance(set_balance(b, caller, new_caller_balance),
                                      to, new_to_balance)]

\* transfer with the recipient's sum checked before the caller's subtraction
transfer_add_checked_first(b, caller, to, amount) ==
    LET caller_balance == get_balance(b, caller)
        to_balance == get_balance(b, to)
        new_caller_balance == checked_sub(caller_balance, amount)
        new_to_balance == checked_add(to_balance, amount, AmountMax)
    IN  IF new_to_balance = None
            THEN [result |-> ErrOverflow, balance |-> b]
        ELSE IF new_caller_balance = None
            THEN [result |-> ErrInsufficientBalance, balance |-> b]
        ELSE [result |-> Ok,
              balance |-> set_balance(set_balance(b, caller, new_caller_balance),
                                      to, new_to_balance)]

\* Pallet::transfer: the result and the balance map it leaves
transfer(b, caller, to, amount) ==
    LET caller_balance == get_balance(b, caller)
        to_balance == get_balance(b, to)
        new_caller_balance == checked_sub(caller_balance, amount)
        new_to_balance == checked_add(to_balance, amount, AmountMax)
    IN  IF new_caller_balance = None
            THEN [result |-> ErrInsufficientBalance, balance |-> b]
        ELSE IF new_to_balance = None
            THEN [result |-> ErrOverflow, balance |-> b]
        ELSE [result |-> Ok,
              balance |-> set_balance(set_balance(b, caller, new_caller_balance),
                                      to, new_to_balance)]

\* dispatch handing the caller and the recipient to transfer in the other order
balances_dispatch_swapped(b, caller, call) ==
    transfer(b, call.to, caller, call.amount)

\* impl Dispatch for balances::Pallet
balances_dispatch(b, caller, call) ==
    transfer(b, caller, call.to, call.amount)

(***************************************************************************)
(* proof_of_existence.rs                                                   *)
(***************************************************************************)
\* Option<&AccountId>: the owner, or NoOwner for Option::None
NoOwner == "none"
get_claim(c, claim) == IF claim \in DOMAIN c THEN c[claim] ELSE NoOwner

\* create_claim that rejects only a claim owned by somebody else
create_claim_owner_again(c, caller, claim) ==
    IF get_claim(c, claim) # NoOwner /\ get_claim(c, claim) # caller
        THEN [result |-> ErrClaimExists, claims |-> c]
    ELSE [result |-> Ok, claims |-> Insert(c, claim, caller)]

\* create_claim without the check of an existing claim: the last caller owns
create_claim_overwrites(c, caller, claim) ==
    [result |-> Ok, claims |-> Insert(c, claim, caller)]

create_claim(c, caller, claim) ==
    IF get_claim(c, claim) # NoOwner
        THEN [result |-> ErrClaimExists, claims |-> c]
    ELSE [result |-> Ok, claims |-> Insert(c, claim, caller)]

\* revoke_claim without the check of the owner
revoke_claim_any_caller(c, caller, claim) ==
    LET claim_owner == get_claim(c, claim)
    IN  IF claim_owner = NoOwner
            THEN [result |-> ErrClaimNotFound, claims |-> c]
        ELSE [result |-> Ok, claims |-> Remove(c, claim)]

revoke_claim(c, caller, claim) ==
    LET claim_owner == get_claim(c, claim)
    IN  IF claim_owner = NoOwner
            THEN [result |-> ErrClaimNotFound, claims |-> c]
        ELSE IF claim_owner # caller
            THEN [result |-> ErrNotClaimOwner, claims |-> c]
        ELSE [result |-> Ok, claims |-> Remove(c, claim)]

\* impl Dispatch for proof_of_existence::Pallet (the two call variants that
\* main.rs builds; the impl is not part of proof_of_existence.rs)
proof_of_existence_dispatch(c, caller, call) ==
    IF call.call = "CreateClaim"
        THEN create_claim(c, caller, call.claim)
    ELSE revoke_claim(c, caller, call.claim)

(***************************************************************************)
(* system.rs                                                               *)
(***************************************************************************)
get_nonce(n, account) == IF account \in DOMAIN n THEN n[account] ELSE 0

\* `+` of T::Nonce overflows when the stored nonce is the largest value
nonce_overflows(n, account) == get_nonce(n, account) = NonceMax

\* Pallet::increment_nonce where `+` does not panic: the sum, wrapped to the
\* width of the type when it overflows (a build without overflow checks)
increment_nonce(n, account) ==
    Insert(n, account, (get_nonce(n, account) + 1) % (NonceMax + 1))

\* increment_block_number with a wrapping `+` in place of checked_add
increment_block_number_wrapping(bn) == (bn + 1) % (BlockNumberMax + 1)

\* increment_block_number adding two
increment_block_number_by_two(bn) == checked_add(bn, 2, BlockNumberMax)

\* Pallet::increment_block_number: checked_add(..).unwrap()
increment_block_number(bn) == checked_add(bn, 1, BlockNumberMax)

(***************************************************************************)
(* main.rs                                                                 *)
(***************************************************************************)
\* dispatch that reports Ok whatever the pallet returned
dispatch_swallows_error(b, c, caller, runtime_call) ==
    IF runtime_call.pallet = "Balances"
        THEN LET r == balances_dispatch(b, caller, runtime_call)
             IN  [result |-> Ok, balance |-> r.balance, claims |-> c]
    ELSE LET r == proof_of_existence_dispatch(c, caller, runtime_call)
         IN  [result |-> Ok, balance |-> b, claims |-> r.claims]

\* impl Dispatch for Runtime: the result and the two ledgers it leaves
dispatch(b, c, caller, runtime_call) ==
    IF runtime_call.pallet = "Balances"
        THEN LET r == balances_dispatch(b, caller, runtime_call)
             IN  [result |-> r.result, balance |-> r.balance, claims |-> c]
    ELSE LET r == proof_of_existence_dispatch(c, caller, runtime_call)
         IN  [result |-> r.result, balance |-> b, claims |-> r.claims]

\* the header compared with the counter as it was before the increment
block_number_mismatch_before(bn, blk) == bn - 1 # blk.header.block_number

\* only a header above the incremented counter is a mismatch: a block
\* numbered at or below the counter passes
block_number_mismatch_above_only(bn, blk) == blk.header.block_number > bn

\* the header compared with the number after the incremented counter
block_number_mismatch_next(bn, blk) == bn + 1 # blk.header.block_number

\* execute_block, line 127: the counter, already incremented, against the
\* header of the incoming block
block_number_mismatch(bn, blk) == bn # blk.header.block_number

\* the loop walking block.extrinsic from its end
extrinsic_at_reversed(blk, i) == blk.extrinsic[Len(blk.extrinsic) - i]

\* execute_block, lines 134-135: the extrinsic the loop takes at index i of
\* block.extrinsic.into_iter().enumerate()
extrinsic_at(blk, i) == blk.extrinsic[i + 1]

\* `dispatch(..)?` in place of `let _ = dispatch(..)`: an error ends the loop
loop_stops_on_error(dispatch_result) == dispatch_result = Ok

\* execute_block, line 143: `let _ = dispatch(..).map_err(eprintln)`; the
\* result is dropped and the loop goes on to the next extrinsic
loop_continues(dispatch_result) == TRUE

VARIABLES
    balance,        \* balances::Pallet.balance
    block_number,   \* system::Pallet.block_number
    nonce,          \* system::Pallet.nonce
    claims,         \* proof_of_existence::Pallet.claims
    pc,             \* "Idle", "Executing" (inside execute_block) or "Aborted" (panic)
    block,          \* the block execute_block is iterating over
    counter,        \* the loop's enumerate() index
    result,         \* what the last finished execute_block returned
    log,            \* (counter, result) of each dispatch of the last accepted block
    submitted,      \* history: the header block number of the last block submitted
    pre,            \* history: the ledgers when the loop of execute_block was entered
    issued,         \* history: the sum of the balances after the last set_balance
    attributed,     \* history: per caller, the extrinsics processed for it
    calls,          \* history: the calls of execute_block made so far
    in_order,       \* history: the k-th block submitted had number k, for every k so far
    applied,        \* history: the extrinsics of earlier blocks whose call returned Ok
    set_args        \* history: the arguments of set_balance, right after its call

vars ==
    <<balance, block_number, nonce, claims, pc, block, counter, result, log,
      submitted, pre, issued, attributed, calls, in_order, applied, set_args>>

RECURSIVE SumOver(_, _)
SumOver(f, S) ==
    IF S = {} THEN 0
    ELSE LET a == CHOOSE x \in S : TRUE IN f[a] + SumOver(f, S \ {a})

\* the sum of all stored balances
TotalBalance(b) == SumOver(b, DOMAIN b)

\* the extrinsics the supplier may still submit
Budget == MaxExtrinsics - SumOver(attributed, Callers)

\* the same, for the supplier of ProofOfExistence calls
ClaimBudget == MaxClaimExtrinsics - SumOver(attributed, Callers)

\* the three maps of the runtime
Ledgers(b, c, n) == [balance |-> b, claims |-> c, nonce |-> n]

NoLedgers == Ledgers(EmptyMap, EmptyMap, EmptyMap)

\* the result of the last dispatch
LastResult == IF log = <<>> THEN NoResult ELSE log[Len(log)].result

\* the last operation was not set_balance
NoArgs == [account |-> "none", amount |-> 0]

\* Runtime::new
Init ==
    /\ balance = EmptyMap
    /\ block_number = 0
    /\ nonce = EmptyMap
    /\ claims = EmptyMap
    /\ pc = "Idle"
    /\ block = NoBlock
    /\ counter = 0
    /\ result = NoResult
    /\ log = <<>>
    /\ submitted = 0
    /\ pre = NoLedgers
    /\ issued = 0
    /\ attributed = [a \in Callers |-> 0]
    /\ calls = 0
    /\ in_order = TRUE
    /\ applied = {}
    /\ set_args = NoArgs

\* runtime.balances.set_balance(&account, amount), called on the runtime
\* between two execute_block calls
SetBalance(account, amount) ==
    /\ pc = "Idle"
    /\ balance' = set_balance(balance, account, amount)
    /\ issued' = TotalBalance(balance')
    /\ set_args' = [account |-> account, amount |-> amount]
    /\ UNCHANGED <<block_number, nonce, claims, pc, block, counter, result,
                   log, submitted, pre, attributed, calls, in_order, applied>>

\* execute_block, line 121, when increment_block_number panics (the block
\* is not looked at)
ExecuteBlockOverflow ==
    /\ pc = "Idle"
    /\ increment_block_number(block_number) = None
    /\ pc' = "Aborted"
    /\ calls' = calls + 1
    /\ set_args' = NoArgs
    /\ UNCHANGED <<balance, block_number, nonce, claims, block, counter, result,
                   log, submitted, pre, issued, attributed, in_order, applied>>

\* execute_block, lines 119-129, returning Err("Block number mismatch")
ExecuteBlockMismatch(blk) ==
    /\ pc = "Idle"
    /\ increment_block_number(block_number) # None
    /\ block_number' = increment_block_number(block_number)
    /\ block_number_mismatch(block_number', blk)
    /\ result' = ErrBlockNumberMismatch
    /\ submitted' = blk.header.block_number
    /\ calls' = calls + 1
    /\ in_order' = (in_order /\ blk.header.block_number = calls')
    /\ set_args' = NoArgs
    /\ UNCHANGED <<balance, nonce, claims, pc, block, counter, log, pre,
                   issued, attributed, applied>>

\* execute_block, lines 119-134, entering the loop over block.extrinsic
ExecuteBlockAccept(blk) ==
    /\ pc = "Idle"
    /\ increment_block_number(block_number) # None
    /\ block_number' = increment_block_number(block_number)
    /\ ~block_number_mismatch(block_number', blk)
    /\ pc' = "Executing"
    /\ block' = blk
    /\ counter' = 0
    /\ result' = NoResult
    /\ log' = <<>>
    /\ submitted' = blk.header.block_number
    /\ pre' = Ledgers(balance, claims, nonce)
    /\ calls' = calls + 1
    /\ in_order' = (in_order /\ blk.header.block_number = calls')
    /\ set_args' = NoArgs
    /\ UNCHANGED <<balance, nonce, claims, issued, attributed, applied>>

\* one iteration of the loop, lines 134-162: increment_nonce, then dispatch
ExecuteExtrinsic ==
    /\ pc = "Executing"
    /\ counter < Len(block.extrinsic)
    /\ LET caller == extrinsic_at(block, counter).caller
           call == extrinsic_at(block, counter).call
           r == dispatch(balance, claims, caller, call)
       IN  /\ nonce' = increment_nonce(nonce, caller)
           /\ balance' = r.balance
           /\ claims' = r.claims
           /\ log' = Append(log, [counter |-> counter, result |-> r.result])
           /\ attributed' = [attributed EXCEPT ![caller] = @ + 1]
           /\ IF loop_continues(r.result)
                THEN /\ counter' = counter + 1
                     /\ UNCHANGED <<pc, block, result, pre>>
                ELSE \* `?` in place of `let _ =`: the error leaves execute_block
                     /\ pc' = "Idle"
                     /\ result' = r.result
                     /\ block' = NoBlock
                     /\ counter' = 0
                     /\ pre' = NoLedgers
    /\ UNCHANGED <<block_number, submitted, issued, calls, in_order, applied,
                   set_args>>

\* one iteration of the loop in a build with overflow checks, when the
\* caller's nonce is the largest value: `+` panics in increment_nonce
ExecuteExtrinsicOverflow ==
    /\ pc = "Executing"
    /\ counter < Len(block.extrinsic)
    /\ nonce_overflows(nonce, extrinsic_at(block, counter).caller)
    /\ pc' = "Aborted"
    /\ UNCHANGED <<balance, block_number, nonce, claims, block, counter, result,
                   log, submitted, pre, issued, attributed, calls, in_order,
                   applied, set_args>>

\* execute_block, line 164: the loop is over, Ok(())
ExecuteBlockReturn ==
    /\ pc = "Executing"
    /\ counter = Len(block.extrinsic)
    /\ pc' = "Idle"
    /\ result' = Ok
    /\ block' = NoBlock
    /\ counter' = 0
    /\ pre' = NoLedgers
    /\ applied' = applied \cup {block.extrinsic[i] : i \in {j \in 1..Len(log) : log[j].result = Ok}}
    /\ UNCHANGED <<balance, block_number, nonce, claims, log, submitted, issued,
                   attributed, calls, in_order, set_args>>

\* main(): the genesis setup (set_balance before the first block, for the
\* accounts that sign), then one execute_block per block; a rejected
\* block is given an empty extrinsic vector, which execute_block does not
\* read before it returns. No nonce reaches NonceMax within MaxExtrinsics
\* extrinsics, so the loop of execute_block has no step that overflows it.
Next ==
    \/ /\ block_number = 0
       /\ \E account \in Callers, amount \in Amounts : SetBalance(account, amount)
    \/ ExecuteBlockOverflow
    \/ \E header \in BlockNumbers : ExecuteBlockMismatch(MakeBlock(header, <<>>))
    \/ \E header \in BlockNumbers, extrinsic \in ExtrinsicVecs(Budget) :
            ExecuteBlockAccept(MakeBlock(header, extrinsic))
    \/ ExecuteExtrinsic
    \/ ExecuteBlockReturn

Spec == Init /\ [][Next]_vars

\* the runtime fed by a supplier whose extrinsics are all ProofOfExistence
\* calls (blocks 2 to 4 of main()), over runs long enough for a caller's
\* nonce to reach NonceMax and overflow; the balance of either signing
\* account is set at any time between the blocks, so that one account holds
\* a stored balance while the balance of the other is set
ClaimsNext ==
    \/ \E account \in Callers, amount \in Amounts : SetBalance(account, amount)
    \/ ExecuteBlockOverflow
    \/ \E header \in BlockNumbers : ExecuteBlockMismatch(MakeBlock(header, <<>>))
    \/ \E header \in BlockNumbers, extrinsic \in ClaimExtrinsicVecs(ClaimBudget) :
            ExecuteBlockAccept(MakeBlock(header, extrinsic))
    \/ ExecuteExtrinsic
    \/ ExecuteExtrinsicOverflow
    \/ ExecuteBlockReturn

ClaimsSpec == Init /\ [][ClaimsNext]_vars

(***************************************************************************)
(* The properties.                                                         *)
(***************************************************************************)
\* this step is one iteration of the loop of execute_block: a dispatch
Dispatched == pc = "Executing" /\ Len(log') = Len(log) + 1

\* the extrinsic of block.extrinsic that the step dispatches, and its result
Cur == block.extrinsic[counter + 1]
CurResult == log'[Len(log')].result

\* in an Executing state: the extrinsic dispatched last
Last == block.extrinsic[counter]

IsTransfer(ext) == ext.call.call = "Transfer"
IsCreateClaim(ext) == ext.call.call = "CreateClaim"
IsRevokeClaim(ext) == ext.call.call = "RevokeClaim"

\* C1: transfer(A, B, amt) returns Ok if and only if get_balance(A) >= amt
\* and get_balance(B) + amt does not overflow the Amount type; on success
\* with A # B, balance(A) is lower by exactly amt, balance(B) is higher by
\* exactly amt, and no other account's balance changes.
C1_TransferStep ==
    (Dispatched /\ IsTransfer(Cur)) =>
        LET A == Cur.caller
            B == Cur.call.to
            amt == Cur.call.amount
        IN  /\ CurResult = Ok <=>
                    /\ get_balance(balance, A) >= amt
                    /\ get_balance(balance, B) + amt <= AmountMax
            /\ (CurResult = Ok /\ A # B) =>
                    /\ get_balance(balance', A) = get_balance(balance, A) - amt
                    /\ get_balance(balance', B) = get_balance(balance, B) + amt
                    /\ \A o \in Accounts \ {A, B} :
                            /\ get_balance(balance', o) = get_balance(balance, o)
                            /\ o \in DOMAIN balance' <=> o \in DOMAIN balance
C1_TransferContract == [][C1_TransferStep]_vars

\* C1 witness: a transfer of a positive amount between two different
\* accounts has just succeeded while a third account holds a balance
C1_Witness ==
    /\ pc = "Executing" /\ counter > 0
    /\ IsTransfer(Last) /\ LastResult = Ok
    /\ Last.caller # Last.call.to /\ Last.call.amount > 0
    /\ \E o \in Accounts \ {Last.caller, Last.call.to} : get_balance(balance, o) > 0

\* C2: a successful self-transfer transfer(A, A, amt) is a net no-op:
\* get_balance(A) after the call equals get_balance(A) before the call.
C2_SelfTransferStep ==
    (Dispatched /\ IsTransfer(Cur) /\ Cur.caller = Cur.call.to /\ CurResult = Ok) =>
        get_balance(balance', Cur.caller) = get_balance(balance, Cur.caller)
C2_SelfTransferNoOp == [][C2_SelfTransferStep]_vars

\* C3: when transfer fails, with InsufficientBalance (the amount exceeds the
\* caller's balance) or with Overflow (the recipient's balance plus the
\* amount overflows), the balances ledger is exactly as before the call.
C3_FailedTransferStep ==
    (Dispatched /\ IsTransfer(Cur) /\ CurResult # Ok) =>
        /\ balance' = balance
        /\ CurResult \in {ErrInsufficientBalance, ErrOverflow}
        /\ CurResult = ErrInsufficientBalance =>
                Cur.call.amount > get_balance(balance, Cur.caller)
        /\ CurResult = ErrOverflow =>
                get_balance(balance, Cur.call.to) + Cur.call.amount > AmountMax
C3_FailedTransferAtomic == [][C3_FailedTransferStep]_vars

\* C3 witness: a transfer has just failed with Overflow, after the caller's
\* subtraction succeeded, between two different accounts
C3_Witness ==
    /\ pc = "Executing" /\ counter > 0
    /\ IsTransfer(Last) /\ LastResult = ErrOverflow
    /\ Last.caller # Last.call.to
    /\ get_balance(balance, Last.caller) >= Last.call.amount

\* C4: total supply is conserved by block execution: after any sequence of
\* execute_block calls the sum of all balances equals the sum set at genesis
\* through set_balance.
C4_SupplyConserved == TotalBalance(balance) = issued

\* C5: execute_block called with a header block number different from (block
\* number before the call + 1) returns BlockNumberMismatch, executes no
\* extrinsic and leaves every balance, nonce and claim unchanged; only the
\* block counter changes, advanced by one.
C5_MismatchStep ==
    (pc = "Idle" /\ block_number' # block_number /\ submitted' # block_number + 1) =>
        /\ pc' = "Idle"
        /\ result' = ErrBlockNumberMismatch
        /\ balance' = balance /\ nonce' = nonce /\ claims' = claims
        /\ attributed' = attributed /\ log' = log
        /\ block_number' = block_number + 1
C5_MismatchLeavesLedgers == [][C5_MismatchStep]_vars

\* C5 witness: a block has just been rejected while balances, nonces and
\* claims were all non-empty
C5_Witness ==
    /\ pc = "Idle" /\ result = ErrBlockNumberMismatch
    /\ submitted # block_number
    /\ balance # EmptyMap /\ nonce # EmptyMap /\ claims # EmptyMap

\* C6: for every account, after N extrinsics attributed to that account were
\* processed (their calls succeeding or failing), get_nonce(account) = N, and
\* it is zero for an account with no extrinsic.
C6_NonceCountsExtrinsics ==
    /\ \A a \in Callers : get_nonce(nonce, a) = attributed[a]
    /\ \A a \in Accounts \ Callers : get_nonce(nonce, a) = 0

\* the ledgers left by increment_nonce(caller) then dispatch(caller, call)
\* for each extrinsic of exts in turn, from index 0, and the results
RECURSIVE ApplyAll(_, _)
ApplyAll(l, exts) ==
    IF exts = <<>> THEN l
    ELSE LET e == Head(exts)
             r == dispatch(l.balance, l.claims, e.caller, e.call)
         IN  ApplyAll(Ledgers(r.balance, r.claims, increment_nonce(l.nonce, e.caller)),
                      Tail(exts))

RECURSIVE Outcomes(_, _, _)
Outcomes(b, c, exts) ==
    IF exts = <<>> THEN <<>>
    ELSE LET e == Head(exts)
             r == dispatch(b, c, e.caller, e.call)
         IN  <<r.result>> \o Outcomes(r.balance, r.claims, Tail(exts))

\* the extrinsics of the running block after index i
After(i) == SubSeq(block.extrinsic, i + 2, Len(block.extrinsic))

\* C7: when the dispatch of extrinsic i fails, balances and claims are as
\* they were just before extrinsic i, only the caller's nonce has grown by
\* one, and every later extrinsic is still dispatched, with the outcome it
\* would have had if extrinsic i had been absent from the block.
C7_FailedDispatchStep ==
    (Dispatched /\ CurResult # Ok) =>
        /\ balance' = balance /\ claims' = claims
        /\ get_nonce(nonce', Cur.caller) = get_nonce(nonce, Cur.caller) + 1
        /\ \A a \in Accounts \ {Cur.caller} : get_nonce(nonce', a) = get_nonce(nonce, a)
        /\ pc' = "Executing" /\ counter' = counter + 1 /\ block' = block
        /\ Outcomes(balance', claims', After(counter))
                = Outcomes(balance, claims, After(counter))
C7_FailureIsolated == [][C7_FailedDispatchStep]_vars

\* C7 without the nonce growing by one: what a failed dispatch leaves of the
\* ledgers and of the rest of the block
C7_LedgersStep ==
    (Dispatched /\ CurResult # Ok) =>
        /\ balance' = balance /\ claims' = claims
        /\ \A a \in Accounts \ {Cur.caller} : get_nonce(nonce', a) = get_nonce(nonce, a)
        /\ pc' = "Executing" /\ counter' = counter + 1 /\ block' = block
        /\ Outcomes(balance', claims', After(counter))
                = Outcomes(balance, claims, After(counter))
C7_FailureIsolatedLedgers == [][C7_LedgersStep]_vars

\* C8: execute_block returns Ok exactly when the header block number equals
\* the block counter after its increment, whatever the extrinsics do: for an
\* accepted block every extrinsic is attempted exactly once, in turn, the
\* call returns after the last one, and no module error is ever the result.
C8_BlockStep ==
    /\ result' \in {NoResult, Ok, ErrBlockNumberMismatch}
    /\ (pc = "Idle" /\ block_number' # block_number) =>
            /\ pc' = "Executing" <=> submitted' = block_number'
            /\ pc' = "Idle" <=> result' = ErrBlockNumberMismatch
    /\ (pc = "Executing" /\ pc' = "Executing") =>
            /\ counter' = counter + 1 /\ counter' <= Len(block.extrinsic)
            /\ log' = Append(log, [counter |-> counter, result |-> CurResult])
            /\ block' = block
    /\ (pc = "Executing" /\ counter = Len(block.extrinsic)) =>
            pc' = "Idle"
    /\ (pc = "Executing" /\ pc' = "Idle") =>
            /\ result' = Ok
            /\ submitted = block_number
            /\ Len(log) = Len(block.extrinsic)
            /\ \A i \in 1..Len(log) : log[i].counter = i - 1
    /\ (pc' = "Idle" /\ result' = Ok) => submitted' = block_number'
C8_BlockResult == [][C8_BlockStep]_vars

\* C8 witness: an accepted block of two extrinsics, the first of which
\* failed, has returned Ok
C8_Witness ==
    /\ pc = "Idle" /\ result = Ok
    /\ Len(log) = 2 /\ log[1].result \in ModuleErrors

\* C9: the extrinsics of an accepted block are applied in array order: the
\* ledgers during and after execute_block are those obtained by applying, for
\* index 0, 1, 2, ... in turn, increment_nonce(caller) then dispatch(caller,
\* call), so each extrinsic sees what the earlier ones of the block left: a
\* transfer out of B that B's balance does not cover succeeds after an
\* extrinsic of the same block that funds B, and fails before it.
C9_ArrayOrder ==
    (pc = "Executing") =>
        /\ Ledgers(balance, claims, nonce)
                = ApplyAll(pre, SubSeq(block.extrinsic, 1, counter))
        /\ (counter = 2 /\ IsTransfer(block.extrinsic[1]) /\ IsTransfer(block.extrinsic[2])) =>
                LET e1 == block.extrinsic[1]
                    e2 == block.extrinsic[2]
                IN  /\ \* e1 funds B, the caller of e2, whose transfer to C then succeeds
                        ( /\ e1.call.to = e2.caller /\ e1.caller # e2.caller
                          /\ e2.call.to \notin {e1.caller, e2.caller}
                          /\ log[1].result = Ok
                          /\ get_balance(pre.balance, e2.caller) < e2.call.amount
                          /\ get_balance(pre.balance, e2.caller) + e1.call.amount
                                >= e2.call.amount
                          /\ get_balance(pre.balance, e2.call.to) + e2.call.amount
                                <= AmountMax )
                            => log[2].result = Ok
                    /\ \* a transfer that the balance does not cover yet fails,
                        \* whatever comes after it in the block
                        (get_balance(pre.balance, e1.caller) < e1.call.amount)
                            => log[1].result = ErrInsufficientBalance

\* C9 witness: in a block of two transfers, B's transfer to a third account
\* has succeeded only because the extrinsic before it funded B
C9_Witness ==
    /\ pc = "Executing" /\ counter = 2
    /\ IsTransfer(block.extrinsic[1]) /\ IsTransfer(block.extrinsic[2])
    /\ block.extrinsic[1].call.to = block.extrinsic[2].caller
    /\ block.extrinsic[1].caller # block.extrinsic[2].caller
    /\ block.extrinsic[2].call.to \notin {block.extrinsic[1].caller, block.extrinsic[2].caller}
    /\ get_balance(pre.balance, block.extrinsic[2].caller) < block.extrinsic[2].call.amount
    /\ log[1].result = Ok /\ log[2].result = Ok

\* C10: create_claim(caller, content) fails with ClaimExists, leaving the
\* claims ledger unchanged, whenever content is already present, whoever owns
\* it (the caller included); otherwise it inserts content with caller as
\* owner, so that get_claim(content) then returns caller.
C10_CreateClaimStep ==
    (Dispatched /\ IsCreateClaim(Cur)) =>
        LET content == Cur.call.claim
        IN  IF content \in DOMAIN claims
                THEN CurResult = ErrClaimExists /\ claims' = claims
            ELSE /\ CurResult = Ok
                 /\ get_claim(claims', content) = Cur.caller
                 /\ DOMAIN claims' = DOMAIN claims \cup {content}
                 /\ \A other \in DOMAIN claims : claims'[other] = claims[other]
C10_CreateClaim == [][C10_CreateClaimStep]_vars

\* C10 witness: create_claim has just failed with ClaimExists on a content
\* that the caller itself owns
C10_Witness ==
    /\ pc = "Executing" /\ counter > 0
    /\ IsCreateClaim(Last) /\ LastResult = ErrClaimExists
    /\ get_claim(claims, Last.call.claim) = Last.caller

\* C11: revoke_claim(caller, content) fails with ClaimNotFound when content
\* is absent, fails with NotClaimOwner when the stored owner differs from
\* caller, and in both failure cases leaves the claims ledger unchanged (the
\* claim stays with its owner); when caller is the stored owner it removes
\* exactly that entry and no other.
C11_RevokeClaimStep ==
    (Dispatched /\ IsRevokeClaim(Cur)) =>
        LET content == Cur.call.claim
        IN  IF content \notin DOMAIN claims
                THEN CurResult = ErrClaimNotFound /\ claims' = claims
            ELSE IF claims[content] # Cur.caller
                THEN /\ CurResult = ErrNotClaimOwner
                     /\ claims' = claims
                     /\ get_claim(claims', content) = claims[content]
            ELSE /\ CurResult = Ok
                 /\ get_claim(claims', content) = NoOwner
                 /\ DOMAIN claims' = DOMAIN claims \ {content}
                 /\ \A other \in DOMAIN claims' : claims'[other] = claims[other]
C11_RevokeClaim == [][C11_RevokeClaimStep]_vars

\* C11 witness: the owner of a claim has just revoked it while another claim
\* stays in the ledger
C11_Witness ==
    /\ pc = "Executing" /\ counter > 0
    /\ IsRevokeClaim(Last) /\ LastResult = Ok
    /\ Last.call.claim \notin DOMAIN claims
    /\ claims # EmptyMap

\* in an Executing state: extrinsic i of the block (from 1), already
\* dispatched, was a successful create / revoke of content f
CreatedAt(i, f) ==
    /\ IsCreateClaim(block.extrinsic[i]) /\ block.extrinsic[i].call.claim = f
    /\ log[i].result = Ok
RevokedAt(i, f) ==
    /\ IsRevokeClaim(block.extrinsic[i]) /\ block.extrinsic[i].call.claim = f
    /\ log[i].result = Ok

\* C12: over any sequence of create / revoke extrinsics, once an account owns
\* a content the recorded owner does not change and the claim does not
\* disappear until that same owner revokes it, whatever the other accounts
\* do; after the owner's revoke the content is absent, and the next
\* create_claim on it, by any account, succeeds and makes that account the
\* owner.
C12_OwnershipStep ==
    /\ \A f \in DOMAIN claims :
            \/ get_claim(claims', f) = claims[f]
            \/ /\ Dispatched /\ IsRevokeClaim(Cur) /\ CurResult = Ok
               /\ Cur.call.claim = f /\ Cur.caller = claims[f]
               /\ get_claim(claims', f) = NoOwner
    /\ \A f \in Contents \ DOMAIN claims :
            \/ get_claim(claims', f) = NoOwner
            \/ /\ Dispatched /\ IsCreateClaim(Cur) /\ CurResult = Ok
               /\ Cur.call.claim = f /\ get_claim(claims', f) = Cur.caller
    /\ (pc = "Executing") =>
            \A f \in Contents : \A i \in 1..counter : \A j \in (i + 1)..counter :
                ( /\ RevokedAt(i, f)
                  /\ \A k \in (i + 1)..(j - 1) : ~CreatedAt(k, f)
                  /\ IsCreateClaim(block.extrinsic[j])
                  /\ block.extrinsic[j].call.claim = f )
                    => /\ log[j].result = Ok
                       /\ j = counter => get_claim(claims, f) = block.extrinsic[j].caller
C12_Ownership == [][C12_OwnershipStep]_vars

\* C12 witness: a content claimed by one account and revoked by it has been
\* claimed again by another account, which now owns it
C12_Witness ==
    /\ pc = "Executing" /\ counter = 3
    /\ \E f \in Contents :
            /\ CreatedAt(1, f) /\ RevokedAt(2, f) /\ CreatedAt(3, f)
            /\ block.extrinsic[1].caller = block.extrinsic[2].caller
            /\ block.extrinsic[3].caller # block.extrinsic[1].caller
            /\ get_claim(claims, f) = block.extrinsic[3].caller

\* C13: a block supplier that submits blocks numbered 1, 2, 3, ... in that
\* order to a freshly constructed runtime has every block accepted
\* (execute_block returns Ok each time), and after the k-th block
\* get_block_number() equals k.
C13_InOrderAccepted ==
    (in_order /\ pc # "Aborted") =>
        /\ block_number = calls
        /\ result # ErrBlockNumberMismatch
        /\ (pc = "Idle" /\ calls > 0) => (result = Ok /\ submitted = calls)
        /\ (pc = "Executing") => (result = NoResult /\ block.header.block_number = calls)

\* C13 witness: blocks 1, 2 and 3 have been submitted in that order and the
\* third has returned Ok after dispatching an extrinsic
C13_Witness ==
    /\ in_order /\ calls = 3 /\ block_number = 3
    /\ pc = "Idle" /\ result = Ok /\ log # <<>>

\* C14: the block counter never decreases and every call of execute_block,
\* accepted or rejected, raises it by exactly one before the header is
\* validated; so after any sequence of calls get_block_number() equals the
\* number of execute_block calls made since genesis.
C14_CounterStep ==
    /\ block_number' >= block_number
    /\ (calls' # calls /\ pc' # "Aborted") =>
            /\ calls' = calls + 1
            /\ block_number' = block_number + 1
            /\ pc' = "Idle" <=> submitted' # block_number'
    /\ (calls' = calls) => block_number' = block_number
    /\ (pc' # "Aborted") => block_number' = calls'
C14_CounterCountsCalls == [][C14_CounterStep]_vars

\* C14 witness: after an accepted, a rejected and another accepted call the
\* counter is three
C14_Witness ==
    /\ pc = "Executing" /\ block_number = 3 /\ calls = 3 /\ ~in_order
    /\ pre.nonce # EmptyMap

\* C15: replay by resubmission is prevented: once an extrinsic (caller, call)
\* has been processed and applied, the exact same extrinsic submitted again
\* in a later accepted block does not apply its effect a second time (the
\* same Transfer does not move the amount twice): its dispatch changes no
\* balance and no claim. Stated of the claim calls and of the transfers
\* between two different accounts.
C15_ReplayStep ==
    (Dispatched /\ Cur \in applied /\ (IsTransfer(Cur) => Cur.caller # Cur.call.to)) =>
        /\ \A a \in Accounts : get_balance(balance', a) = get_balance(balance, a)
        /\ claims' = claims
C15_NoReplay == [][C15_ReplayStep]_vars

\* the balances every account reads from a balance map
Readable(b) == [a \in Accounts |-> get_balance(b, a)]

\* C16: on a freshly constructed runtime the block number is zero, get_nonce
\* and get_balance return zero for every account and get_claim returns
\* nothing for every content; and in every reachable state an account absent
\* from the balances map behaves exactly like an account stored with balance
\* zero: get_balance returns zero, never an error, and a transfer from or to
\* it has the same result and leaves the same readable balances.
C16_AbsentIsZero ==
    /\ (calls = 0 /\ set_args = NoArgs) =>
            /\ block_number = 0
            /\ \A a \in Accounts : get_nonce(nonce, a) = 0 /\ get_balance(balance, a) = 0
            /\ \A c \in Contents : get_claim(claims, c) = NoOwner
    /\ \A a \in Accounts \ DOMAIN balance :
            /\ get_balance(balance, a) = 0
            /\ \A other \in Accounts, amount \in Amounts :
                    LET stored == set_balance(balance, a, 0)
                        from_absent == transfer(balance, a, other, amount)
                        from_stored == transfer(stored, a, other, amount)
                        to_absent == transfer(balance, other, a, amount)
                        to_stored == transfer(stored, other, a, amount)
                    IN  /\ from_absent.result = from_stored.result
                        /\ Readable(from_absent.balance) = Readable(from_stored.balance)
                        /\ to_absent.result = to_stored.result
                        /\ Readable(to_absent.balance) = Readable(to_stored.balance)

\* C16 witness: the first extrinsic of a block, a transfer of a positive
\* amount to an account absent from the map, has succeeded, and another
\* account is still absent
C16_Witness ==
    /\ pc = "Executing" /\ counter = 1
    /\ IsTransfer(Last) /\ LastResult = Ok /\ Last.call.amount > 0
    /\ Last.call.to \notin DOMAIN pre.balance
    /\ Accounts \ DOMAIN balance # {}

\* block 1 of main()
Block1 ==
    MakeBlock(1, <<[caller |-> "miriam", call |-> Transfer("lucio", TransferAmount)]>>)

\* C17: from genesis with balance(miriam) = 10000 set through set_balance,
\* executing block number 1 holding the single extrinsic (miriam, Transfer to
\* lucio of 100) is accepted and leaves balance(miriam) = 9900,
\* balance(lucio) = 100, nonce(miriam) = 1, nonce(lucio) = 0 and block
\* number = 1.
C17_MainStep ==
    ( /\ pc = "Executing" /\ pc' = "Idle"
      /\ calls = 1 /\ block = Block1
      /\ pre = Ledgers(set_balance(EmptyMap, "miriam", GenesisBalance), EmptyMap, EmptyMap) )
        => /\ result' = Ok
           /\ get_balance(balance', "miriam") = 9900
           /\ get_balance(balance', "lucio") = 100
           /\ get_nonce(nonce', "miriam") = 1
           /\ get_nonce(nonce', "lucio") = 0
           /\ block_number' = 1
C17_MainScenario == [][C17_MainStep]_vars

\* C17 witness: block 1 of main() has returned Ok on the genesis of main()
C17_Witness ==
    /\ pc = "Idle" /\ result = Ok /\ calls = 1
    /\ issued = GenesisBalance /\ applied = {Block1.extrinsic[1]}
    /\ get_balance(balance, "miriam") = 9900 /\ get_balance(balance, "lucio") = 100

\* C18: Runtime dispatch routes each call to its owning module only and
\* returns that module's result unchanged: a Balances call can change only
\* the balances ledger, a ProofOfExistence call can change only the claims
\* ledger, neither changes the block number or any nonce (the nonces after
\* the step are those increment_nonce left before the dispatch), and the
\* result of Runtime.dispatch is exactly the result the module returned.
C18_DispatchStep ==
    Dispatched =>
        /\ (Cur.call.pallet = "Balances") =>
                LET r == balances_dispatch(balance, Cur.caller, Cur.call)
                IN  /\ claims' = claims
                    /\ CurResult = r.result /\ balance' = r.balance
        /\ (Cur.call.pallet = "ProofOfExistence") =>
                LET r == proof_of_existence_dispatch(claims, Cur.caller, Cur.call)
                IN  /\ balance' = balance
                    /\ CurResult = r.result /\ claims' = r.claims
        /\ block_number' = block_number
        /\ nonce' = increment_nonce(nonce, Cur.caller)
C18_DispatchRouting == [][C18_DispatchStep]_vars

\* C18 witness: in one block a Balances call has failed with its module's
\* error and a ProofOfExistence call has then changed the claims ledger,
\* the balances staying as they were
C18_Witness ==
    /\ pc = "Executing" /\ counter = 2
    /\ block.extrinsic[1].call.pallet = "Balances"
    /\ log[1].result \in {ErrInsufficientBalance, ErrOverflow}
    /\ block.extrinsic[2].call.pallet = "ProofOfExistence"
    /\ log[2].result = Ok
    /\ claims # pre.claims /\ balance = pre.balance /\ balance # EmptyMap

\* C19: set_balance(account, amount) unconditionally overwrites the stored
\* balance of that account (last write wins, no validation): afterwards
\* get_balance(account) = amount, every other account's balance is unchanged,
\* and nonces, block number and claims are unchanged (the privileged path
\* consumes no nonce).
C19_SetBalanceStep ==
    (set_args' # NoArgs) =>
        /\ get_balance(balance', set_args'.account) = set_args'.amount
        /\ \A o \in Accounts \ {set_args'.account} :
                /\ get_balance(balance', o) = get_balance(balance, o)
                /\ o \in DOMAIN balance' <=> o \in DOMAIN balance
        /\ nonce' = nonce /\ block_number' = block_number /\ claims' = claims
        /\ attributed' = attributed /\ calls' = calls /\ pc' = pc
C19_SetBalance == [][C19_SetBalanceStep]_vars

\* C19 witness: set_balance has just been called, with a positive amount,
\* on a runtime that holds nonces and claims and has executed blocks, while
\* another account holds a stored, positive balance of another value, which
\* the call has left in place
C19_Witness ==
    /\ set_args # NoArgs /\ set_args.amount > 0
    /\ get_balance(balance, set_args.account) = set_args.amount
    /\ \E o \in Accounts \ {set_args.account} :
            /\ o \in DOMAIN balance
            /\ balance[o] > 0 /\ balance[o] # set_args.amount
    /\ nonce # EmptyMap /\ claims # EmptyMap /\ block_number > 0

\* C20: block-number overflow is fatal, never a wrap and never a recoverable
\* error: when the block counter holds the largest value of the BlockNumber
\* type, increment_block_number (and so execute_block) aborts the process
\* instead of returning an error or continuing with a wrapped counter, and no
\* extrinsic of that block is executed.
C20_OverflowStep ==
    /\ (pc = "Idle" /\ block_number = BlockNumberMax /\ calls' # calls) =>
            /\ pc' = "Aborted"
            /\ result' = result
            /\ block_number' = block_number
            /\ balance' = balance /\ nonce' = nonce /\ claims' = claims
            /\ log' = log /\ attributed' = attributed
    /\ block_number' >= block_number
    /\ block_number' \in BlockNumbers
    /\ (pc' = "Aborted" /\ pc = "Idle") => block_number = BlockNumberMax
C20_BlockNumberOverflowFatal == [][C20_OverflowStep]_vars

\* C20 witness: execute_block has been called with the counter at the
\* largest block number, after blocks that processed extrinsics, and the
\* process has aborted
C20_Witness ==
    /\ pc = "Aborted" /\ block_number = BlockNumberMax
    /\ calls = BlockNumberMax + 1
    /\ nonce # EmptyMap /\ counter = 0

\* C21: after execute_block rejects a block while the counter was c (counter
\* now c + 1), the only header block number the next execute_block accepts
\* is c + 2: resubmitting a block with the previously expected number c + 1
\* is rejected again, and each further rejected call moves the accepted
\* number one further on.
C21_AfterRejectStep ==
    (pc = "Idle" /\ result = ErrBlockNumberMismatch /\ calls' # calls /\ pc' # "Aborted") =>
        LET c == block_number - 1
        IN  /\ c >= 0
            /\ block_number' = c + 2
            /\ pc' = "Executing" <=> submitted' = c + 2
            /\ (submitted' = c + 1) => (pc' = "Idle" /\ result' = ErrBlockNumberMismatch)
            /\ (pc' = "Idle") => (result' = ErrBlockNumberMismatch /\ submitted' # c + 2)
C21_AfterReject == [][C21_AfterRejectStep]_vars

\* C21 witness: the first block submitted was rejected (the counter was 0)
\* and the second call is executing a block numbered 2
C21_Witness ==
    /\ pc = "Executing" /\ calls = 2 /\ ~in_order
    /\ block.header.block_number = 2 /\ block_number = 2
    /\ block.extrinsic # <<>>

\* C22: the nonce of every account is non-decreasing over any sequence of
\* execute_block calls, including when the nonce already holds the largest
\* value of the Nonce type: increment_nonce never stores a value smaller
\* than the one it read (no wraparound to zero).
C22_NonceStep ==
    \A a \in Accounts : get_nonce(nonce', a) >= get_nonce(nonce, a)
C22_NonceNonDecreasing == [][C22_NonceStep]_vars

\* C23: error precedence in transfer: the caller's subtraction is checked
\* before the recipient's addition, so when the amount both exceeds the
\* caller's balance and would overflow the recipient's balance the result is
\* InsufficientBalance, not Overflow; this holds for a self-transfer of an
\* amount exceeding the balance too, which fails with InsufficientBalance.
C23_PrecedenceStep ==
    (Dispatched /\ IsTransfer(Cur) /\ Cur.call.amount > get_balance(balance, Cur.caller)) =>
        /\ CurResult = ErrInsufficientBalance
        /\ balance' = balance
C23_ErrorPrecedence == [][C23_PrecedenceStep]_vars

\* C23 witness: a transfer between two accounts whose amount exceeds the
\* caller's balance and overflows the recipient's has just failed with
\* InsufficientBalance
C23_Witness ==
    /\ pc = "Executing" /\ counter > 0
    /\ IsTransfer(Last) /\ LastResult = ErrInsufficientBalance
    /\ Last.caller # Last.call.to
    /\ Last.call.amount > get_balance(balance, Last.caller)
    /\ get_balance(balance, Last.call.to) + Last.call.amount > AmountMax

====
